---- MODULE Spec2Model ----
(***************************************************************************)
(* Budget tracker: the project / expense data layer of the API.            *)
(*                                                                         *)
(* The store holds Project and Expense documents.  Every REST handler of   *)
(* project.routes.js and expense.routes.js is one action; the mongoose     *)
(* schemas (casting, setters, validators, the Expense pre-save hook and    *)
(* the budgetStatus virtual) are operators used by those actions.          *)
(*                                                                         *)
(* Money is counted in units of 0.005, so that 0.01 is 2 and a positive    *)
(* amount below the schema minimum (0.005) is 1.                           *)
(* Time is an integer clock; new Date() / Date.now read it.  Two stamps    *)
(* written to the store by different requests are assumed to differ (each  *)
(* request awaits at least one store round trip before stamping), so a     *)
(* handler that stamps reads clock now + 1.                                *)
(***************************************************************************)
EXTENDS Integers, Sequences, FiniteSets, TLC

\* ------------------------------------------------------------------ bounds
MaxProjects == 2
MaxExpenses == 2
MaxTime == 3
MaxInflight == 2

Users == {"u1", "u2", "u3"}
ProjectIds == 1..MaxProjects
ExpenseIds == 1..MaxExpenses
Slots == 1..MaxInflight

\* ------------------------------------------------------- schema constants
MinBudget == 0
MinAmount == 2
Categories == {"marketing", "development", "design", "operations", "hr", "other"}

\* ------------------------------------------------------------- JS values
\* A value of a JSON request body: t is its JavaScript type.
Undefined == [t |-> "undefined", n |-> 0, s |-> "", a |-> <<>>]
NaN == [t |-> "NaN", n |-> 0, s |-> "", a |-> <<>>]
Num(n) == [t |-> "number", n |-> n, s |-> "", a |-> <<>>]
Str(s) == [t |-> "string", n |-> 0, s |-> s, a |-> <<>>]
Arr(a) == [t |-> "array", n |-> 0, s |-> "", a |-> a]

\* !v
Falsy(v) ==
    \/ v.t \in {"undefined", "NaN"}
    \/ v.t = "string" /\ v.s = ""
    \/ v.t = "number" /\ v.n = 0

\* The decimal strings that occur in request bodies, with their values.
NumericStrings == ("100" :> 100) @@ ("-1000" :> (0 - 1000))

\* parseFloat(v): a number is itself, a decimal string its value, anything
\* else NaN.
parseFloat(v) ==
    IF v.t = "number" THEN v
    ELSE IF v.t = "string" /\ v.s \in DOMAIN NumericStrings THEN Num(NumericStrings[v.s])
    ELSE NaN

\* String.prototype.trim on the strings that occur in request bodies.
Trim(s) ==
    CASE s = "  " -> ""
      [] s = " Beta " -> "Beta"
      [] OTHER -> s

\* An id as it arrives in JSON (a string) and as mongoose holds it (an
\* ObjectId); the store keeps the bare id.
JsonId(u) == [t |-> "string", id |-> u]
ObjectId(u) == [t |-> "ObjectId", id |-> u]
CastObjectId(x) == x.id

\* Array.prototype.includes: SameValueZero on the elements.
Includes(arr, x) == \E i \in 1..Len(arr) : arr[i] = x

\* ---------------------------------------------------------------- state
VARIABLES
    projects,   \* Project collection: _id -> document
    expenses,   \* Expense collection: _id -> document
    nextPid,    \* next fresh Project _id
    nextEid,    \* next fresh Expense _id
    now,        \* the clock: latest time stamped into the store
    resp,       \* the response of the last request
    inflight    \* the requests whose handler is between two store operations

vars == <<projects, expenses, nextPid, nextEid, now, resp, inflight>>
store == <<projects, expenses, nextPid, nextEid, now>>

Response(op, user, pid, eid, status, data) ==
    [op |-> op, user |-> user, pid |-> pid, eid |-> eid, status |-> status, data |-> data]

NoData == [ok |-> FALSE]
\* No request is being handled.
NoResponse == Response("none", "none", 0, 0, 0, NoData)
\* The server is ready for a request: the previous response has gone out.
Ready == resp = NoResponse

\* A request waiting between two store operations of its handler.
Request(op, u, p, body) == [op |-> op, user |-> u, pid |-> p, body |-> body]

\* A handler slot that holds no request.
NoRequest == Request("none", "none", 0, NoData)

Init ==
    /\ inflight = [s \in Slots |-> NoRequest]
    /\ projects = <<>>
    /\ expenses = <<>>
    /\ nextPid = 1
    /\ nextEid = 1
    /\ now = 0
    /\ resp = NoResponse

\* Remove key k from the function f.
Without(f, k) == [x \in (DOMAIN f) \ {k} |-> f[x]]


\* ------------------------------------------------------- Project schema
\* Casting of a Project path value by the schema: String paths are
\* trimmed, ObjectId paths cast from their string form.
CastProjectName(v) == Trim(v.s)
CastDescription(v) == IF v.t = "string" THEN Str(Trim(v.s)) ELSE Undefined
ValidObjectId(x) == x.id \in Users
CastMembers(arr) == [i \in 1..Len(arr) |-> CastObjectId(arr[i])]

\* name: required (a non-empty string after trim).
NameValid(v) == v.t = "string" /\ Trim(v.s) # ""
\* budget: required, a Number (NaN does not cast), min 0.
BudgetValid(v) == v.t = "number" /\ v.n >= MinBudget
\* members: every element casts to an ObjectId.
MembersValid(arr) == \A i \in 1..Len(arr) : ValidObjectId(arr[i])
\* HasAccess without the { members: u } branch.
HasAccessOwnerOnly(doc, u) == doc.createdBy = u

\* Query filter { $or: [{ createdBy: u }, { members: u }] } on a document.
HasAccess(doc, u) == doc.createdBy = u \/ Includes(doc.members, u)
\* IsOwner that also matches a member.
IsOwnerOrMember(doc, u) == doc.createdBy = u \/ Includes(doc.members, u)

\* Query filter { createdBy: u } on a document.
IsOwner(doc, u) == doc.createdBy = u

\* --------------------------------------------------- budgetStatus virtual
\* The virtual populate totalExpenses: the expenses whose project is pid.
totalExpenses(pid) == {e \in DOMAIN expenses : expenses[e].project = pid}

RECURSIVE SumAmounts(_)
\* totalExpenses.reduce((sum, exp) => sum + (exp.amount || 0), 0)
SumAmounts(S) ==
    IF S = {} THEN 0
    ELSE LET e == CHOOSE x \in S : TRUE
         IN expenses[e].amount + SumAmounts(S \ {e})

Min(a, b) == IF a < b THEN a ELSE b
Max(a, b) == IF a > b THEN a ELSE b
\* Math.round(n / d) for n >= 0, d > 0: halves round up.
RoundDiv(n, d) == (2 * n + d) \div (2 * d)
\* budgetStatus without the clamp of remaining at 0.
budgetStatusNoClamp(budget, total) ==
    [ totalSpent |-> total,
      percentage |-> IF budget # 0 THEN Min(100, RoundDiv(total * 100, budget)) ELSE 0,
      remaining |-> IF budget # 0 THEN budget - total ELSE 0,
      isOverBudget |-> IF budget # 0 THEN total > budget ELSE FALSE ]

\* budgetStatus with isOverBudget as total >= budget.
budgetStatusAtLeast(budget, total) ==
    [ totalSpent |-> total,
      percentage |-> IF budget # 0 THEN Min(100, RoundDiv(total * 100, budget)) ELSE 0,
      remaining |-> IF budget # 0 THEN Max(0, budget - total) ELSE 0,
      isOverBudget |-> IF budget # 0 THEN total >= budget ELSE FALSE ]

budgetStatus(budget, total) ==
    [ totalSpent |-> total,
      percentage |-> IF budget # 0 THEN Min(100, RoundDiv(total * 100, budget)) ELSE 0,
      remaining |-> IF budget # 0 THEN Max(0, budget - total) ELSE 0,
      isOverBudget |-> IF budget # 0 THEN total > budget ELSE FALSE ]

\* A project document as serialised with its virtuals populated.
Populated(pid) ==
    [ doc |-> projects[pid],
      budgetStatus |-> budgetStatus(projects[pid].budget, SumAmounts(totalExpenses(pid))) ]

\* ------------------------------------------------------ request bodies
ProjectBody(name, description, budget, startDate, endDate, members) ==
    [ name |-> name, description |-> description, budget |-> budget,
      startDate |-> startDate, endDate |-> endDate, members |-> members ]

\* Bodies of POST /projects.
CreateProjectBodies ==
    { ProjectBody(Str("Alpha"), Undefined, Num(100), Undefined, Undefined, Undefined),
      ProjectBody(Str(" Beta "), Str("d1"), Num(0), Num(1), Num(9), Undefined),
      ProjectBody(Str("Alpha"), Undefined, Str("100"), Undefined, Undefined, Undefined),
      ProjectBody(Str(""), Undefined, Num(100), Undefined, Undefined, Undefined),
      ProjectBody(Undefined, Undefined, Num(100), Undefined, Undefined, Undefined),
      ProjectBody(Str("Alpha"), Undefined, Undefined, Undefined, Undefined, Undefined),
      ProjectBody(Str("Alpha"), Undefined, Num(0 - 1000), Undefined, Undefined, Undefined),
      ProjectBody(Str("Alpha"), Undefined, Str("abc"), Undefined, Undefined, Undefined),
      ProjectBody(Str("  "), Undefined, Num(100), Undefined, Undefined, Undefined) }

\* ----------------------------------------------------- project handlers
\* GET /projects
SortedByUpdatedAt(S) ==
    CHOOSE seq \in [1..Cardinality(S) -> S] :
        /\ \A i, j \in 1..Cardinality(S) : i # j => seq[i] # seq[j]
        /\ \A i, j \in 1..Cardinality(S) :
              i < j => projects[seq[i]].updatedAt >= projects[seq[j]].updatedAt

listProjectsForUser(u) ==
    /\ Ready
    /\ UNCHANGED inflight
    /\ resp' = Response("listProjects", u, 0, 0, 200,
                 [ ids |-> SortedByUpdatedAt({p \in DOMAIN projects : HasAccess(projects[p], u)}) ])
    /\ UNCHANGED store

\* POST /projects
createProject(u, body) ==
    /\ Ready
    /\ UNCHANGED inflight
    /\ nextPid <= MaxProjects
    /\ now < MaxTime
    /\ IF Falsy(body.name) \/ body.budget = Undefined
       THEN /\ resp' = Response("createProject", u, 0, 0, 400, NoData)
            /\ UNCHANGED store
       ELSE LET t == now + 1
                budget == parseFloat(body.budget)
                startDate == IF Falsy(body.startDate) THEN Num(t) ELSE body.startDate
            IN IF ~(NameValid(body.name) /\ BudgetValid(budget))
               THEN /\ resp' = Response("createProject", u, 0, 0, 500, NoData)
                    /\ UNCHANGED store
               ELSE LET doc == [ name |-> CastProjectName(body.name),
                                 description |-> CastDescription(body.description),
                                 budget |-> budget.n,
                                 startDate |-> startDate.n,
                                 endDate |-> body.endDate,
                                 createdBy |-> u,
                                 members |-> <<u>>,
                                 updatedAt |-> t ]
                    IN /\ projects' = projects @@ (nextPid :> doc)
                       /\ nextPid' = nextPid + 1
                       /\ now' = t
                       /\ resp' = Response("createProject", u, nextPid, 0, 201, [doc |-> doc])
                       /\ UNCHANGED <<expenses, nextEid>>

\* GET /projects/:id
getProject(u, p) ==
    /\ Ready
    /\ UNCHANGED inflight
    /\ IF p \in DOMAIN projects /\ HasAccess(projects[p], u)
       THEN resp' = Response("getProject", u, p, 0, 200, Populated(p))
       ELSE resp' = Response("getProject", u, p, 0, 404, NoData)
    /\ UNCHANGED store

\* Bodies of PUT /projects/:id.
UpdateProjectBodies ==
    { ProjectBody(Undefined, Undefined, Undefined, Undefined, Undefined, Undefined),
      ProjectBody(Str(" Beta "), Undefined, Undefined, Undefined, Undefined, Undefined),
      ProjectBody(Undefined, Str("d1"), Num(0), Undefined, Num(9), Undefined),
      ProjectBody(Str(""), Undefined, Undefined, Undefined, Undefined, Undefined),
      ProjectBody(Undefined, Undefined, Num(0 - 1000), Undefined, Undefined, Undefined),
      ProjectBody(Undefined, Undefined, Str("abc"), Undefined, Undefined, Undefined),
      ProjectBody(Undefined, Undefined, Undefined, Undefined, Undefined, Arr(<<>>)),
      ProjectBody(Undefined, Undefined, Undefined, Undefined, Undefined, Arr(<<JsonId("u2")>>)),
      ProjectBody(Undefined, Undefined, Undefined, Undefined, Undefined, Arr(<<JsonId("u2"), JsonId("u3")>>)),
      ProjectBody(Undefined, Undefined, Undefined, Undefined, Undefined, Arr(<<JsonId("bad")>>)),
      ProjectBody(Undefined, Undefined, Undefined, Undefined, Undefined, Str("u2")) }
\* ForceOwner without the push of the caller's _id.
ForceOwnerNoPush(members, u) == members

\* The members array of the update: the body's list with the caller's
\* _id pushed unless the list includes it.
ForceOwner(members, u) ==
    IF ~Includes(members, ObjectId(u)) THEN Append(members, ObjectId(u)) ELSE members
\* updateProject that puts endDate into the update also when the body has none.
updateProjectSetsEndDate(u, p, body) ==
    /\ Ready
    /\ UNCHANGED inflight
    /\ now < MaxTime
    /\ LET t == now + 1
           setName == body.name # Undefined
           setDescription == body.description # Undefined
           setBudget == body.budget # Undefined
           setStartDate == body.startDate # Undefined
           setEndDate == body.endDate # Undefined
           setMembers == ~Falsy(body.members) /\ body.members.t = "array"
           budget == parseFloat(body.budget)
           members == ForceOwner(body.members.a, u)
           valid == /\ setName => NameValid(body.name)
                    /\ setBudget => BudgetValid(budget)
                    /\ setMembers => MembersValid(members)
       IN IF ~valid
          THEN /\ resp' = Response("updateProject", u, p, 0, 500, NoData)
               /\ UNCHANGED store
          ELSE IF ~(p \in DOMAIN projects /\ IsOwner(projects[p], u))
          THEN /\ resp' = Response("updateProject", u, p, 0, 404, NoData)
               /\ UNCHANGED store
          ELSE LET old == projects[p]
                   doc == [ name |-> IF setName THEN CastProjectName(body.name) ELSE old.name,
                            description |-> IF setDescription THEN CastDescription(body.description)
                                            ELSE old.description,
                            budget |-> IF setBudget THEN budget.n ELSE old.budget,
                            startDate |-> IF setStartDate THEN body.startDate.n ELSE old.startDate,
                            endDate |-> body.endDate,
                            createdBy |-> old.createdBy,
                            members |-> IF setMembers THEN CastMembers(members) ELSE old.members,
                            updatedAt |-> t ]
               IN /\ projects' = [projects EXCEPT ![p] = doc]
                  /\ now' = t
                  /\ resp' = Response("updateProject", u, p, 0, 200, [doc |-> doc])
                  /\ UNCHANGED <<expenses, nextPid, nextEid>>

\* PUT /projects/:id
updateProject(u, p, body) ==
    /\ Ready
    /\ UNCHANGED inflight
    /\ now < MaxTime
    /\ LET t == now + 1
           setName == body.name # Undefined
           setDescription == body.description # Undefined
           setBudget == body.budget # Undefined
           setStartDate == body.startDate # Undefined
           setEndDate == body.endDate # Undefined
           setMembers == ~Falsy(body.members) /\ body.members.t = "array"
           budget == parseFloat(body.budget)
           members == ForceOwner(body.members.a, u)
           valid == /\ setName => NameValid(body.name)
                    /\ setBudget => BudgetValid(budget)
                    /\ setMembers => MembersValid(members)
       IN IF ~valid
          THEN /\ resp' = Response("updateProject", u, p, 0, 500, NoData)
               /\ UNCHANGED store
          ELSE IF ~(p \in DOMAIN projects /\ IsOwner(projects[p], u))
          THEN /\ resp' = Response("updateProject", u, p, 0, 404, NoData)
               /\ UNCHANGED store
          ELSE LET old == projects[p]
                   doc == [ name |-> IF setName THEN CastProjectName(body.name) ELSE old.name,
                            description |-> IF setDescription THEN CastDescription(body.description)
                                            ELSE old.description,
                            budget |-> IF setBudget THEN budget.n ELSE old.budget,
                            startDate |-> IF setStartDate THEN body.startDate.n ELSE old.startDate,
                            endDate |-> IF setEndDate THEN body.endDate ELSE old.endDate,
                            createdBy |-> old.createdBy,
                            members |-> IF setMembers THEN CastMembers(members) ELSE old.members,
                            updatedAt |-> t ]
               IN /\ projects' = [projects EXCEPT ![p] = doc]
                  /\ now' = t
                  /\ resp' = Response("updateProject", u, p, 0, 200, [doc |-> doc])
                  /\ UNCHANGED <<expenses, nextPid, nextEid>>
\* deleteMany that removes nothing.
deleteManyNone(p) == expenses

\* Expense.deleteMany({ project: p })
deleteMany(p) == [e \in {x \in DOMAIN expenses : expenses[x].project # p} |-> expenses[e]]

\* DELETE /projects/:id
deleteProject(u, p) ==
    /\ Ready
    /\ UNCHANGED inflight
    /\ IF ~(p \in DOMAIN projects /\ IsOwner(projects[p], u))
       THEN /\ resp' = Response("deleteProject", u, p, 0, 404, NoData)
            /\ UNCHANGED store
       ELSE /\ projects' = Without(projects, p)
            /\ expenses' = deleteMany(p)
            /\ resp' = Response("deleteProject", u, p, 0, 200, [deleted |-> TRUE])
            /\ UNCHANGED <<nextPid, nextEid, now>>

\* Values of userId in the body of POST /projects/:id/members.
NoUserId == [t |-> "undefined", id |-> ""]
UserIdValues == {NoUserId, JsonId("bad")} \cup {JsonId(u) : u \in Users}
\* AddToSet that replaces the array by the new element.
AddToSetReplaces(members, x) == <<x>>

\* { $addToSet: { members: x } }
AddToSet(members, x) == IF Includes(members, x) THEN members ELSE Append(members, x)

\* POST /projects/:id/members
addMember(u, p, userId) ==
    /\ Ready
    /\ UNCHANGED inflight
    /\ now < MaxTime
    /\ IF userId.t = "undefined"
       THEN /\ resp' = Response("addMember", u, p, 0, 400, NoData)
            /\ UNCHANGED store
       ELSE IF ~ValidObjectId(userId)
       THEN /\ resp' = Response("addMember", u, p, 0, 500, NoData)
            /\ UNCHANGED store
       ELSE IF ~(/\ p \in DOMAIN projects
                 /\ IsOwner(projects[p], u)
                 /\ ~Includes(projects[p].members, CastObjectId(userId)))
       THEN /\ resp' = Response("addMember", u, p, 0, 404, NoData)
            /\ UNCHANGED store
       ELSE LET t == now + 1
                doc == [projects[p] EXCEPT !.members = AddToSet(@, CastObjectId(userId)),
                                           !.updatedAt = t]
            IN /\ projects' = [projects EXCEPT ![p] = doc]
               /\ now' = t
               /\ resp' = Response("addMember", u, p, 0, 200, [doc |-> doc])
               /\ UNCHANGED <<expenses, nextPid, nextEid>>

\* ------------------------------------------------------- Expense schema
\* description: required (a non-empty string after trim).
DescriptionValid(v) == v.t = "string" /\ Trim(v.s) # ""
\* AmountValid with min 0 exclusive in place of min 0.01.
AmountPositive(v) == v.t = "number" /\ v.n > 0

\* amount: required, a Number (NaN does not cast), min 0.01.
AmountValid(v) == v.t = "number" /\ v.n >= MinAmount
\* category: required, one of the enum values.
CategoryValid(v) == v.t = "string" /\ v.s \in Categories
\* preSave that leaves the project alone.
preSaveNothing(pid, t) == projects

\* pre("save"): Project.updateOne({ _id: this.project }, { $set: { updatedAt: new Date() } })
preSave(pid, t) ==
    [p \in DOMAIN projects |->
        IF p = pid THEN [projects[p] EXCEPT !.updatedAt = t] ELSE projects[p]]

ExpenseBody(description, amount, category, date) ==
    [ description |-> description, amount |-> amount, category |-> category, date |-> date ]

\* The value of projectId in a POST /expenses body that has none.
NoProjectId == 0

\* Bodies of POST /expenses (projectId apart).
CreateExpenseBodies ==
    { ExpenseBody(Str("lunch"), Num(2), Str("marketing"), Undefined),
      ExpenseBody(Str("server"), Num(100), Str("development"), Num(1)),
      ExpenseBody(Str("lunch"), Str("300"), Str("other"), Undefined),
      ExpenseBody(Str("lunch"), Num(0), Str("other"), Undefined),
      ExpenseBody(Str("lunch"), Num(1), Str("other"), Undefined),
      ExpenseBody(Str("lunch"), Num(0 - 1000), Str("other"), Undefined),
      ExpenseBody(Str("lunch"), Str("abc"), Str("other"), Undefined),
      ExpenseBody(Str("lunch"), Undefined, Str("other"), Undefined),
      ExpenseBody(Str("lunch"), Num(100), Str("travel"), Undefined),
      ExpenseBody(Str("lunch"), Num(100), Undefined, Undefined),
      ExpenseBody(Str(""), Num(100), Str("other"), Undefined),
      ExpenseBody(Str("  "), Num(100), Str("other"), Undefined) }

\* Bodies of PUT /expenses/:id.
UpdateExpenseBodies ==
    { ExpenseBody(Undefined, Undefined, Undefined, Undefined),
      ExpenseBody(Undefined, Num(100), Undefined, Undefined),
      ExpenseBody(Str("taxi"), Undefined, Str("design"), Num(2)),
      ExpenseBody(Undefined, Num(0), Undefined, Undefined),
      ExpenseBody(Undefined, Num(1), Undefined, Undefined),
      ExpenseBody(Undefined, Str("abc"), Undefined, Undefined),
      ExpenseBody(Undefined, Undefined, Str("travel"), Undefined),
      ExpenseBody(Undefined, Undefined, Str(""), Undefined),
      ExpenseBody(Str(""), Undefined, Undefined, Undefined) }

\* ----------------------------------------------------- expense handlers
\* .sort({ date: -1, createdAt: -1 })
SortedByDate(S) ==
    CHOOSE seq \in [1..Cardinality(S) -> S] :
        /\ \A i, j \in 1..Cardinality(S) : i # j => seq[i] # seq[j]
        /\ \A i, j \in 1..Cardinality(S) :
              i < j => \/ expenses[seq[i]].date > expenses[seq[j]].date
                       \/ /\ expenses[seq[i]].date = expenses[seq[j]].date
                          /\ expenses[seq[i]].createdAt >= expenses[seq[j]].createdAt

\* GET /expenses/project/:projectId
listExpensesForProject(u, p) ==
    /\ Ready
    /\ UNCHANGED inflight
    /\ IF p \in DOMAIN projects /\ HasAccess(projects[p], u)
       THEN resp' = Response("listExpenses", u, p, 0, 200,
                       [ ids |-> SortedByDate(totalExpenses(p)) ])
       ELSE resp' = Response("listExpenses", u, p, 0, 404, NoData)
    /\ UNCHANGED store

\* POST /expenses
createExpense(u, p, body) ==
    /\ Ready
    /\ UNCHANGED inflight
    /\ nextEid <= MaxExpenses
    /\ now < MaxTime
    /\ IF \/ Falsy(body.description) \/ body.amount = Undefined
          \/ Falsy(body.category) \/ p = NoProjectId
       THEN /\ resp' = Response("createExpense", u, p, 0, 400, NoData)
            /\ UNCHANGED store
       ELSE IF ~(p \in DOMAIN projects /\ HasAccess(projects[p], u))
       THEN /\ resp' = Response("createExpense", u, p, 0, 404, NoData)
            /\ UNCHANGED store
       ELSE LET t == now + 1
                amount == parseFloat(body.amount)
                date == IF Falsy(body.date) THEN Num(t) ELSE body.date
            IN IF ~(/\ DescriptionValid(body.description)
                    /\ AmountValid(amount)
                    /\ CategoryValid(body.category))
               THEN /\ resp' = Response("createExpense", u, p, 0, 500, NoData)
                    /\ UNCHANGED store
               ELSE LET doc == [ description |-> Trim(body.description.s),
                                 amount |-> amount.n,
                                 category |-> body.category.s,
                                 date |-> date.n,
                                 project |-> p,
                                 createdBy |-> u,
                                 createdAt |-> t ]
                    IN /\ projects' = preSave(p, t)
                       /\ expenses' = expenses @@ (nextEid :> doc)
                       /\ nextEid' = nextEid + 1
                       /\ now' = t
                       /\ resp' = Response("createExpense", u, p, nextEid, 201, [doc |-> doc])
                       /\ UNCHANGED nextPid
\* Permission that also lets any member of the project through.
PermissionAnyMember(exp, u) ==
    IF exp.createdBy = u THEN "ok"
    ELSE IF exp.project \notin DOMAIN projects THEN "throws"
    ELSE IF HasAccess(projects[exp.project], u) THEN "ok"
    ELSE "forbidden"
\* Permission that also requires the caller to have access to the project.
PermissionWhileMember(exp, u) ==
    IF exp.project \notin DOMAIN projects
    THEN (IF exp.createdBy = u THEN "ok" ELSE "throws")
    ELSE IF /\ HasAccess(projects[exp.project], u)
            /\ (exp.createdBy = u \/ projects[exp.project].createdBy = u)
         THEN "ok"
         ELSE "forbidden"

\* The permission check of PUT and DELETE /expenses/:id on the expense
\* with its project populated: "ok", "forbidden", or "throws" when the
\* project reference populates to null and its createdBy is read.
Permission(exp, u) ==
    IF exp.createdBy = u THEN "ok"
    ELSE IF exp.project \notin DOMAIN projects THEN "throws"
    ELSE IF projects[exp.project].createdBy = u THEN "ok"
    ELSE "forbidden"

\* PUT /expenses/:id
updateExpense(u, e, body) ==
    /\ Ready
    /\ UNCHANGED inflight
    /\ LET setDescription == body.description # Undefined
           setAmount == body.amount # Undefined
           setCategory == body.category # Undefined
           setDate == body.date # Undefined
           amount == parseFloat(body.amount)
           valid == /\ setDescription => DescriptionValid(body.description)
                    /\ setAmount => AmountValid(amount)
                    /\ setCategory => CategoryValid(body.category)
       IN IF e \notin DOMAIN expenses
          THEN /\ resp' = Response("updateExpense", u, 0, e, 404, NoData)
               /\ UNCHANGED store
          ELSE IF Permission(expenses[e], u) = "throws"
          THEN /\ resp' = Response("updateExpense", u, expenses[e].project, e, 500, NoData)
               /\ UNCHANGED store
          ELSE IF Permission(expenses[e], u) = "forbidden"
          THEN /\ resp' = Response("updateExpense", u, expenses[e].project, e, 403, NoData)
               /\ UNCHANGED store
          ELSE IF ~valid
          THEN /\ resp' = Response("updateExpense", u, expenses[e].project, e, 500, NoData)
               /\ UNCHANGED store
          ELSE LET old == expenses[e]
                   doc == [ old EXCEPT
                              !.description = IF setDescription THEN Trim(body.description.s) ELSE @,
                              !.amount = IF setAmount THEN amount.n ELSE @,
                              !.category = IF setCategory THEN body.category.s ELSE @,
                              !.date = IF setDate THEN body.date.n ELSE @ ]
               IN /\ expenses' = [expenses EXCEPT ![e] = doc]
                  /\ resp' = Response("updateExpense", u, old.project, e, 200, [doc |-> doc])
                  /\ UNCHANGED <<projects, nextPid, nextEid, now>>

\* DELETE /expenses/:id
deleteExpense(u, e) ==
    /\ Ready
    /\ UNCHANGED inflight
    /\ IF e \notin DOMAIN expenses
       THEN /\ resp' = Response("deleteExpense", u, 0, e, 404, NoData)
            /\ UNCHANGED store
       ELSE IF Permission(expenses[e], u) = "throws"
       THEN /\ resp' = Response("deleteExpense", u, expenses[e].project, e, 500, NoData)
            /\ UNCHANGED store
       ELSE IF Permission(expenses[e], u) = "forbidden"
       THEN /\ resp' = Response("deleteExpense", u, expenses[e].project, e, 403, NoData)
            /\ UNCHANGED store
       ELSE /\ expenses' = Without(expenses, e)
            /\ resp' = Response("deleteExpense", u, expenses[e].project, e, 200, [deleted |-> TRUE])
            /\ UNCHANGED <<projects, nextPid, nextEid, now>>

\* $group by category with $sum of amount and a count.
Groups(S) ==
    { [ category |-> c,
        total |-> SumAmounts({e \in S : expenses[e].category = c}),
        count |-> Cardinality({e \in S : expenses[e].category = c}) ]
      : c \in {expenses[e].category : e \in S} }

\* $sort: { total: -1 }: every order of the groups with totals descending.
SortedByTotal(G) ==
    { seq \in [1..Cardinality(G) -> G] :
        /\ \A i, j \in 1..Cardinality(G) : i # j => seq[i] # seq[j]
        /\ \A i, j \in 1..Cardinality(G) : i < j => seq[i].total >= seq[j].total }

\* GET /expenses/summary/project/:projectId
summarizeByCategory(u, p) ==
    /\ Ready
    /\ UNCHANGED inflight
    /\ IF p \in DOMAIN projects /\ HasAccess(projects[p], u)
       THEN \E summary \in SortedByTotal(Groups(totalExpenses(p))) :
               resp' = Response("summarizeByCategory", u, p, 0, 200, [summary |-> summary])
       ELSE resp' = Response("summarizeByCategory", u, p, 0, 404, NoData)
    /\ UNCHANGED store

\* ------------------------------------------------------- specification
\* res.status(...).json(...): the response goes out and the server is ready
\* for the next request.
send ==
    /\ resp # NoResponse
    /\ UNCHANGED inflight
    /\ resp' = NoResponse
    /\ UNCHANGED store

Next ==
    \/ \E u \in Users : listProjectsForUser(u)
    \/ \E u \in Users, body \in CreateProjectBodies : createProject(u, body)
    \/ \E u \in Users, p \in ProjectIds : getProject(u, p)
    \/ \E u \in Users, p \in ProjectIds, body \in UpdateProjectBodies : updateProject(u, p, body)
    \/ \E u \in Users, p \in ProjectIds : deleteProject(u, p)
    \/ \E u \in Users, p \in ProjectIds, userId \in UserIdValues : addMember(u, p, userId)
    \/ \E u \in Users, p \in ProjectIds : listExpensesForProject(u, p)
    \/ \E u \in Users, p \in ProjectIds \cup {NoProjectId}, body \in CreateExpenseBodies :
          createExpense(u, p, body)
    \/ \E u \in Users, e \in ExpenseIds, body \in UpdateExpenseBodies : updateExpense(u, e, body)
    \/ \E u \in Users, e \in ExpenseIds : deleteExpense(u, e)
    \/ \E u \in Users, p \in ProjectIds : summarizeByCategory(u, p)
    \/ send

Spec == Init /\ [][Next]_vars
\* ---------------------------------------------------------------------------
\* Concurrent requests.  The handlers of POST /expense and DELETE /project/:id
\* each await two store operations; between the two, other requests run.
\* A request between its two operations sits in a slot of inflight.

Idle(s) == inflight[s].op = "none"

Quiescent == \A s \in Slots : Idle(s)

\* The number of POST /expense requests that have passed the access check
\* and have not saved yet.
PendingSaves == Cardinality({s \in Slots : inflight[s].op = "createExpense"})

\* POST /expense up to and including Project.findOne: the 400 check and the
\* access check.
createExpenseCheck(s, u, p, body) ==
    /\ Ready
    /\ Idle(s)
    /\ nextEid + PendingSaves <= MaxExpenses
    /\ now + PendingSaves < MaxTime
    /\ UNCHANGED store
    /\ IF \/ Falsy(body.description) \/ body.amount = Undefined
          \/ Falsy(body.category) \/ p = NoProjectId
       THEN /\ resp' = Response("createExpense", u, p, 0, 400, NoData)
            /\ UNCHANGED inflight
       ELSE IF ~(p \in DOMAIN projects /\ HasAccess(projects[p], u))
       THEN /\ resp' = Response("createExpense", u, p, 0, 404, NoData)
            /\ UNCHANGED inflight
       ELSE /\ inflight' = [inflight EXCEPT ![s] = Request("createExpense", u, p, body)]
            /\ UNCHANGED resp

\* POST /expense from new Expense(...) on: validation, the pre('save') hook
\* and the insert.  The project is not looked at again.
createExpenseSave(s) ==
    /\ Ready
    /\ inflight[s].op = "createExpense"
    /\ inflight' = [inflight EXCEPT ![s] = NoRequest]
    /\ LET u == inflight[s].user
           p == inflight[s].pid
           body == inflight[s].body
           t == now + 1
           amount == parseFloat(body.amount)
           date == IF Falsy(body.date) THEN Num(t) ELSE body.date
       IN IF ~(/\ DescriptionValid(body.description)
               /\ AmountValid(amount)
               /\ CategoryValid(body.category))
          THEN /\ resp' = Response("createExpense", u, p, 0, 500, NoData)
               /\ UNCHANGED store
          ELSE LET doc == [ description |-> Trim(body.description.s),
                            amount |-> amount.n,
                            category |-> body.category.s,
                            date |-> date.n,
                            project |-> p,
                            createdBy |-> u,
                            createdAt |-> t ]
               IN /\ projects' = preSave(p, t)
                  /\ expenses' = expenses @@ (nextEid :> doc)
                  /\ nextEid' = nextEid + 1
                  /\ now' = t
                  /\ resp' = Response("createExpense", u, p, nextEid, 201, [doc |-> doc])
                  /\ UNCHANGED nextPid

\* DELETE /project/:id up to and including Project.findOneAndDelete.
deleteProjectFind(s, u, p) ==
    /\ Ready
    /\ Idle(s)
    /\ IF ~(p \in DOMAIN projects /\ IsOwner(projects[p], u))
       THEN /\ resp' = Response("deleteProject", u, p, 0, 404, NoData)
            /\ UNCHANGED <<store, inflight>>
       ELSE /\ projects' = Without(projects, p)
            /\ inflight' = [inflight EXCEPT ![s] = Request("deleteProject", u, p, NoData)]
            /\ UNCHANGED <<expenses, nextPid, nextEid, now, resp>>

\* DELETE /project/:id from Expense.deleteMany on.
deleteProjectCascade(s) ==
    /\ Ready
    /\ inflight[s].op = "deleteProject"
    /\ inflight' = [inflight EXCEPT ![s] = NoRequest]
    /\ expenses' = deleteMany(inflight[s].pid)
    /\ resp' = Response("deleteProject", inflight[s].user, inflight[s].pid, 0, 200,
                        [deleted |-> TRUE])
    /\ UNCHANGED <<projects, nextPid, nextEid, now>>

\* The store after u1 has created project 1 (POST /projects with name Alpha
\* and budget 100) and made u2 a member (PUT /projects/1 with members [u2]),
\* with the clock's origin at the time of that update.
InitShared ==
    /\ inflight = [s \in Slots |-> NoRequest]
    /\ projects = (1 :> [ name |-> "Alpha", description |-> Undefined, budget |-> 100,
                          startDate |-> 0 - 1, endDate |-> Undefined, createdBy |-> "u1",
                          members |-> <<"u2", "u1">>, updatedAt |-> 0 ])
    /\ expenses = <<>>
    /\ nextPid = 2
    /\ nextEid = 1
    /\ now = 0
    /\ resp = NoResponse

\* The handlers that write to the expenses or change who is a member of the
\* shared project.
NextShared ==
    \/ \E u \in Users, p \in ProjectIds, body \in UpdateProjectBodies : updateProject(u, p, body)
    \/ \E u \in Users, p \in ProjectIds : deleteProject(u, p)
    \/ \E u \in Users, p \in ProjectIds \cup {NoProjectId}, body \in CreateExpenseBodies :
          createExpense(u, p, body)
    \/ \E u \in Users, e \in ExpenseIds, body \in UpdateExpenseBodies : updateExpense(u, e, body)
    \/ \E u \in Users, e \in ExpenseIds : deleteExpense(u, e)
    \/ send

\* Those handlers on a store that already holds a shared project.
SpecShared == InitShared /\ [][NextShared]_vars

\* Concurrent POST /expense and DELETE /project/:id requests on a project that
\* u1 owns and u2 is a member of.
NextConcurrent ==
    \/ \E s \in Slots, u \in Users, p \in ProjectIds \cup {NoProjectId},
          body \in CreateExpenseBodies : createExpenseCheck(s, u, p, body)
    \/ \E s \in Slots : createExpenseSave(s)
    \/ \E s \in Slots, u \in Users, p \in ProjectIds : deleteProjectFind(s, u, p)
    \/ \E s \in Slots : deleteProjectCascade(s)
    \/ send

SpecConcurrent == InitShared /\ [][NextConcurrent]_vars

\* ---------------------------------------------------------------- claims
\* The users that occur in a members array.
MemberSet(doc) == {doc.members[i] : i \in 1..Len(doc.members)}

\* C1: in every reachable state the owner of every stored project is one of
\* its members, whatever createProject, updateProject (with or without a
\* members list, the empty list included) and addMember calls were made.
C1_OwnerIsMember ==
    \A p \in DOMAIN projects : projects[p].createdBy \in MemberSet(projects[p])

\* An owner has replaced the members list by one that did not start with
\* the owner, and the owner is in the stored list.
C1_Witness ==
    /\ resp.op = "updateProject" /\ resp.status = 200
    /\ resp.pid \in DOMAIN projects
    /\ projects[resp.pid].members[1] # projects[resp.pid].createdBy
    /\ projects[resp.pid].createdBy \in MemberSet(projects[resp.pid])

\* C2: when deleteProject answers { deleted: true }, the project is gone and
\* no stored expense references it.
C2_DeleteCascades ==
    (resp.op = "deleteProject" /\ resp.status = 200) =>
        /\ resp.pid \notin DOMAIN projects
        /\ \A e \in DOMAIN expenses : expenses[e].project # resp.pid

\* The only project ever created has been deleted after an expense had been
\* logged, and no expense is left.
C2_Witness ==
    /\ resp.op = "deleteProject" /\ resp.status = 200
    /\ nextPid = 2 /\ nextEid > 1
    /\ DOMAIN projects = {} /\ DOMAIN expenses = {}

\* U may read P: U is P's owner or one of P's members.
CanRead(u, p) == projects[p].createdBy = u \/ u \in MemberSet(projects[p])

\* C3: getProject, listExpensesForProject and summarizeByCategory answer with
\* data exactly when the caller is the owner or a member of the project and
\* with 404 otherwise; listProjectsForUser returns exactly the projects the
\* caller owns or is a member of.
C3_ReadAccess ==
    /\ resp.op \in {"getProject", "listExpenses", "summarizeByCategory"} =>
          /\ resp.status \in {200, 404}
          /\ resp.status = 200 <=> (resp.pid \in DOMAIN projects /\ CanRead(resp.user, resp.pid))
    /\ resp.op = "listProjects" =>
          /\ resp.status = 200
          /\ {resp.data.ids[i] : i \in 1..Len(resp.data.ids)}
                = {p \in DOMAIN projects : CanRead(resp.user, p)}
          /\ Len(resp.data.ids) = Cardinality({p \in DOMAIN projects : CanRead(resp.user, p)})

\* A member who is not the owner reads a project, while a third user is
\* neither owner nor member of it.
C3_Witness ==
    /\ resp.op = "getProject" /\ resp.status = 200
    /\ projects[resp.pid].createdBy # resp.user
    /\ \E u \in Users : ~CanRead(u, resp.pid)

\* U is E's creator or the owner of E's project.
Authorized(u, e) ==
    \/ expenses[e].createdBy = u
    \/ /\ expenses[e].project \in DOMAIN projects
       /\ projects[expenses[e].project].createdBy = u

\* The fields a PUT /expenses/:id body supplies pass the Expense schema.
ExpenseFieldsValid(body) ==
    /\ body.description # Undefined => DescriptionValid(body.description)
    /\ body.amount # Undefined => AmountValid(parseFloat(body.amount))
    /\ body.category # Undefined => CategoryValid(body.category)

\* C4 as stated: updateExpense and deleteExpense on an existing expense
\* succeed exactly when the caller is its creator or the owner of its
\* project; any other caller gets 403 and the expense is left unchanged.
C4_SucceedIffAuthorized ==
    [][ (resp'.op \in {"updateExpense", "deleteExpense"} /\ resp'.eid \in DOMAIN expenses) =>
          /\ resp'.status = 200 <=> Authorized(resp'.user, resp'.eid)
          /\ ~Authorized(resp'.user, resp'.eid) => (resp'.status = 403 /\ expenses' = expenses)
      ]_vars

\* C4 amended: on an existing expense whose project exists, deleteExpense
\* succeeds exactly when the caller is its creator or the owner of its
\* project, and updateExpense exactly when in addition the supplied fields
\* pass the schema validation; any other caller gets 403, and every call
\* that does not succeed leaves the expenses unchanged.
C4_SucceedIffAuthorizedAndValid ==
    [][ /\ \A u \in Users, e \in ExpenseIds, body \in UpdateExpenseBodies :
              (updateExpense(u, e, body) /\ e \in DOMAIN expenses) =>
                  /\ resp'.status = 200 <=> (Authorized(u, e) /\ ExpenseFieldsValid(body))
                  /\ ~Authorized(u, e) => resp'.status = 403
                  /\ resp'.status # 200 => expenses' = expenses
        /\ \A u \in Users, e \in ExpenseIds :
              (deleteExpense(u, e) /\ e \in DOMAIN expenses) =>
                  /\ resp'.status = 200 <=> Authorized(u, e)
                  /\ ~Authorized(u, e) => resp'.status = 403
                  /\ resp'.status # 200 => expenses' = expenses
      ]_vars

\* A member of the project who is neither the expense's creator nor the
\* project's owner is refused with 403, and the expense is still stored.
C4_Witness ==
    /\ resp.op = "updateExpense" /\ resp.status = 403
    /\ resp.eid \in DOMAIN expenses
    /\ resp.user \in MemberSet(projects[resp.pid])
    /\ expenses[resp.eid].createdBy # projects[resp.pid].createdBy

\* The fields a PUT /projects/:id body supplies pass the Project schema.
ProjectFieldsValid(body) ==
    /\ body.name # Undefined => NameValid(body.name)
    /\ body.budget # Undefined => BudgetValid(parseFloat(body.budget))
    /\ body.members.t = "array" => MembersValid(body.members.a)

\* C5 as stated: updateProject, deleteProject and addMember by a user who is
\* not the project's owner answer 404 and leave the project and its
\* expenses unchanged.
C5_NonOwnerGets404 ==
    [][ ( /\ resp'.op \in {"updateProject", "deleteProject", "addMember"}
          /\ resp'.pid \in DOMAIN projects
          /\ projects[resp'.pid].createdBy # resp'.user ) =>
              /\ resp'.status = 404
              /\ projects' = projects /\ expenses' = expenses
      ]_vars

\* C5 amended: updateProject, deleteProject and addMember by a user who is
\* not the project's owner never succeed and leave the projects and the
\* expenses unchanged; the answer is 404 when the request is well formed, 500
\* when a supplied field fails the schema's casting or validation, and 400
\* when addMember carries no userId.
C5_NonOwnerChangesNothing ==
    [][ /\ \A u \in Users, p \in ProjectIds, body \in UpdateProjectBodies :
              (updateProject(u, p, body) /\ p \in DOMAIN projects /\ projects[p].createdBy # u) =>
                  /\ resp'.status = IF ProjectFieldsValid(body) THEN 404 ELSE 500
                  /\ projects' = projects /\ expenses' = expenses
        /\ \A u \in Users, p \in ProjectIds :
              (deleteProject(u, p) /\ p \in DOMAIN projects /\ projects[p].createdBy # u) =>
                  /\ resp'.status = 404
                  /\ projects' = projects /\ expenses' = expenses
        /\ \A u \in Users, p \in ProjectIds, userId \in UserIdValues :
              (addMember(u, p, userId) /\ p \in DOMAIN projects /\ projects[p].createdBy # u) =>
                  /\ resp'.status = IF userId.t = "undefined" THEN 400
                                    ELSE IF ~ValidObjectId(userId) THEN 500 ELSE 404
                  /\ projects' = projects /\ expenses' = expenses
      ]_vars

\* A member who is not the owner asks to delete a project that has
\* expenses, gets 404, and the project and its expenses are still stored.
C5_Witness ==
    /\ resp.op = "deleteProject" /\ resp.status = 404
    /\ resp.pid \in DOMAIN projects
    /\ resp.user \in MemberSet(projects[resp.pid])
    /\ resp.user # projects[resp.pid].createdBy
    /\ \E e \in DOMAIN expenses : expenses[e].project = resp.pid

\* The body of POST /projects has an empty name, no budget, or a negative
\* budget.
RejectedProjectBody(body) ==
    \/ body.name = Str("")
    \/ body.budget = Undefined
    \/ parseFloat(body.budget).t = "number" /\ parseFloat(body.budget).n < 0

\* C6: createProject with an empty name, a missing budget or a negative
\* budget answers 400 and creates no project.
C6_InvalidProjectGets400 ==
    [][ \A u \in Users, body \in CreateProjectBodies :
            (createProject(u, body) /\ RejectedProjectBody(body)) =>
                (resp'.status = 400 /\ projects' = projects)
      ]_vars

\* C7: every stored expense has an amount of at least 0.01 and a category of
\* the enumeration, and a createExpense or updateExpense call that is
\* rejected leaves the expenses unchanged.
C7_ExpensesValid ==
    /\ [](\A e \in DOMAIN expenses :
             /\ expenses[e].amount > 0
             /\ expenses[e].amount >= MinAmount
             /\ expenses[e].category \in
                  {"marketing", "development", "design", "operations", "hr", "other"})
    /\ [][ (resp'.op \in {"createExpense", "updateExpense"} /\ resp'.status \notin {200, 201}) =>
               expenses' = expenses ]_vars

\* An update of a stored expense has been rejected by the schema validation
\* (the caller is authorized), and the expense still has a valid amount.
C7_Witness ==
    /\ resp.op = "updateExpense" /\ resp.status = 500
    /\ resp.eid \in DOMAIN expenses
    /\ Authorized(resp.user, resp.eid)
    /\ expenses[resp.eid].amount >= MinAmount

RECURSIVE SumUpTo(_, _)
\* The sum of the amounts of the expenses 1..n that reference project p.
SumUpTo(p, n) ==
    IF n = 0 THEN 0
    ELSE (IF n \in DOMAIN expenses /\ expenses[n].project = p THEN expenses[n].amount ELSE 0)
         + SumUpTo(p, n - 1)

\* The sum of the amounts of all expenses that reference project p.
TotalSpent(p) == SumUpTo(p, nextEid - 1)

\* C8: for every project, remaining is max(0, budget - totalSpent), so never
\* negative, also when totalSpent exceeds the budget and when the budget is 0.
C8_RemainingClamped ==
    \A p \in DOMAIN projects :
        LET status == Populated(p).budgetStatus
        IN /\ status.totalSpent = TotalSpent(p)
           /\ status.remaining = Max(0, projects[p].budget - TotalSpent(p))
           /\ status.remaining >= 0

\* A project with a non-zero budget is overspent and its remaining is 0.
C8_Witness ==
    \E p \in DOMAIN projects :
        /\ projects[p].budget > 0
        /\ TotalSpent(p) > projects[p].budget
        /\ Populated(p).budgetStatus.remaining = 0

\* C9: for a project with a non-zero budget isOverBudget is true exactly when
\* the sum of the amounts of its expenses exceeds the budget; with budget 0 it
\* is false.
C9_OverBudgetIffExceeds ==
    \A p \in DOMAIN projects :
        LET status == Populated(p).budgetStatus
        IN /\ projects[p].budget # 0 => (status.isOverBudget <=> TotalSpent(p) > projects[p].budget)
           /\ projects[p].budget = 0 => ~status.isOverBudget

\* Two expenses, each within the budget, together exceed it.
C9_Witness ==
    \E p \in DOMAIN projects :
        /\ Cardinality(totalExpenses(p)) = 2
        /\ \A e \in totalExpenses(p) : expenses[e].amount <= projects[p].budget
        /\ Populated(p).budgetStatus.isOverBudget

\* C10: a successful createExpense leaves the project's updatedAt strictly
\* later than it was before the call.
C10_CreateExpenseTouchesProject ==
    [][ (resp'.op = "createExpense" /\ resp'.status = 201) =>
            /\ resp'.pid \in DOMAIN projects /\ resp'.pid \in DOMAIN projects'
            /\ projects'[resp'.pid].updatedAt > projects[resp'.pid].updatedAt
      ]_vars

\* An expense has been created by a member who is not the owner, and the
\* project's updatedAt is the time of that creation.
C10_Witness ==
    /\ resp.op = "createExpense" /\ resp.status = 201
    /\ expenses[resp.eid].createdBy # projects[resp.pid].createdBy
    /\ projects[resp.pid].updatedAt = expenses[resp.eid].createdAt

\* C11: a successful deleteExpense of an expense of project P leaves P's
\* updatedAt later than it was before the call.
C11_DeleteExpenseTouchesProject ==
    [][ (resp'.op = "deleteExpense" /\ resp'.status = 200 /\ resp'.pid \in DOMAIN projects) =>
            /\ resp'.pid \in DOMAIN projects'
            /\ projects'[resp'.pid].updatedAt > projects[resp'.pid].updatedAt
      ]_vars

\* The user ids of a members array of a request body.
BodyMemberIds(arr) == {arr[i].id : i \in 1..Len(arr)}

\* C12: updateProject by the owner sets the fields the request supplies among
\* name, description, budget, startDate, endDate and members and leaves the
\* unsupplied ones unchanged; no operation changes a stored project's
\* createdBy, and no operation changes a stored expense's project or
\* createdBy.
C12_OnlySuppliedFieldsChange ==
    [][ /\ \A u \in Users, p \in ProjectIds, body \in UpdateProjectBodies :
              (updateProject(u, p, body) /\ resp'.status = 200) =>
                  /\ projects'[p].name =
                        IF body.name # Undefined THEN Trim(body.name.s) ELSE projects[p].name
                  /\ projects'[p].description =
                        IF body.description # Undefined THEN Str(Trim(body.description.s))
                        ELSE projects[p].description
                  /\ projects'[p].budget =
                        IF body.budget # Undefined THEN parseFloat(body.budget).n
                        ELSE projects[p].budget
                  /\ projects'[p].startDate =
                        IF body.startDate # Undefined THEN body.startDate.n
                        ELSE projects[p].startDate
                  /\ projects'[p].endDate =
                        IF body.endDate # Undefined THEN body.endDate ELSE projects[p].endDate
                  /\ IF body.members.t = "array"
                     THEN MemberSet(projects'[p]) = BodyMemberIds(body.members.a) \cup {u}
                     ELSE projects'[p].members = projects[p].members
                  /\ \A q \in DOMAIN projects : q # p => projects'[q] = projects[q]
        /\ \A p \in DOMAIN projects :
              p \in DOMAIN projects' => projects'[p].createdBy = projects[p].createdBy
        /\ \A e \in DOMAIN expenses :
              e \in DOMAIN expenses' =>
                  /\ expenses'[e].project = expenses[e].project
                  /\ expenses'[e].createdBy = expenses[e].createdBy
      ]_vars

\* The owner has supplied description, budget and endDate only: they are
\* set, and the name, the start date and the members are as created.
C12_Witness ==
    /\ resp.op = "updateProject" /\ resp.status = 200
    /\ resp.pid \in DOMAIN projects
    /\ projects[resp.pid].description = Str("d1")
    /\ projects[resp.pid].budget = 0
    /\ projects[resp.pid].endDate = Num(9)
    /\ projects[resp.pid].name = "Alpha"
    /\ projects[resp.pid].members = <<projects[resp.pid].createdBy>>
    /\ projects[resp.pid].startDate < projects[resp.pid].updatedAt

\* addMember(u, p, x) is allowed: u owns the stored project p and x is not
\* one of its members.
MayAdd(u, p, x) ==
    /\ p \in DOMAIN projects
    /\ projects[p].createdBy = u
    /\ x \notin MemberSet(projects[p])

\* C13 as stated: addMember succeeds exactly when the caller owns P and X is
\* not yet a member, and then members is the old list plus X with no other
\* field changed; otherwise it fails and nothing changes.
C13_AddMemberChangesMembersOnly ==
    [][ \A u \in Users, p \in ProjectIds, x \in Users :
            addMember(u, p, JsonId(x)) =>
                /\ resp'.status = 200 <=> MayAdd(u, p, x)
                /\ MayAdd(u, p, x) =>
                      projects' = [projects EXCEPT ![p].members = Append(@, x)]
                /\ ~MayAdd(u, p, x) => projects' = projects
      ]_vars

\* C13 amended: as stated, except that a successful addMember also refreshes
\* the project's updatedAt.
C13_AddMemberChangesMembersAndUpdatedAt ==
    [][ \A u \in Users, p \in ProjectIds, x \in Users :
            addMember(u, p, JsonId(x)) =>
                /\ resp'.status = 200 <=> MayAdd(u, p, x)
                /\ MayAdd(u, p, x) =>
                      /\ projects' = [projects EXCEPT ![p].members = Append(@, x),
                                                      ![p].updatedAt = projects'[p].updatedAt]
                      /\ projects'[p].updatedAt > projects[p].updatedAt
                /\ ~MayAdd(u, p, x) => (resp'.status = 404 /\ projects' = projects)
                /\ expenses' = expenses
      ]_vars

\* The owner has added a user who was not a member: the members are the
\* owner followed by that user.
C13_Witness ==
    /\ resp.op = "addMember" /\ resp.status = 200
    /\ Len(projects[resp.pid].members) = 2
    /\ projects[resp.pid].members[1] = projects[resp.pid].createdBy
    /\ projects[resp.pid].members[2] # projects[resp.pid].createdBy
    /\ projects[resp.pid].updatedAt = now

\* C14: the members of a stored project are a set: no user id occurs twice
\* in the array, whatever createProject, updateProject and addMember calls
\* were made.
C14_MembersHaveNoDuplicates ==
    \A p \in DOMAIN projects :
        \A i, j \in 1..Len(projects[p].members) :
            i # j => projects[p].members[i] # projects[p].members[j]

\* C16 as stated: createExpense, updateExpense and deleteExpense succeed only
\* for a caller who is, at the time of the call, the owner or a member of
\* the expense's project.
C16_ModifyOnlyWhileMember ==
    [][ (resp'.op \in {"createExpense", "updateExpense", "deleteExpense"}
            /\ resp'.status \in {200, 201}) =>
            /\ resp'.pid \in DOMAIN projects
            /\ CanRead(resp'.user, resp'.pid)
      ]_vars

\* C16 amended: createExpense succeeds only for the owner or a current
\* member of the project; updateExpense and deleteExpense succeed only for
\* the expense's creator or the project's owner, and for the creator they
\* succeed (given valid fields) whether or not the creator is still a
\* member.
C16_CreatorKeepsOwnExpenses ==
    [][ /\ (resp'.op = "createExpense" /\ resp'.status = 201) =>
              (resp'.pid \in DOMAIN projects /\ CanRead(resp'.user, resp'.pid))
        /\ (resp'.op \in {"updateExpense", "deleteExpense"} /\ resp'.status = 200) =>
              Authorized(resp'.user, resp'.eid)
        /\ \A u \in Users, e \in ExpenseIds, body \in UpdateExpenseBodies :
              ( /\ updateExpense(u, e, body)
                /\ e \in DOMAIN expenses
                /\ expenses[e].createdBy = u
                /\ ExpenseFieldsValid(body) ) => resp'.status = 200
        /\ \A u \in Users, e \in ExpenseIds :
              ( /\ deleteExpense(u, e)
                /\ e \in DOMAIN expenses
                /\ expenses[e].createdBy = u ) => (resp'.status = 200 /\ e \notin DOMAIN expenses')
      ]_vars

\* A user who created an expense and was then dropped from the project's
\* members has updated that expense.
C16_Witness ==
    /\ resp.op = "updateExpense" /\ resp.status = 200
    /\ resp.pid \in DOMAIN projects
    /\ expenses[resp.eid].createdBy = resp.user
    /\ ~CanRead(resp.user, resp.pid)

\* C15: when createExpense and deleteProject requests for the same project
\* interleave at the granularity of their store operations, then once every
\* request has completed, every stored expense references a project that
\* still exists.
C15_NoOrphanWhenQuiescent ==
    Quiescent => \A e \in DOMAIN expenses : expenses[e].project \in DOMAIN projects

====
